---- MODULE Spec2Model ----
(***************************************************************************)
(* Seat reservations on a quorum store with per-key conditional writes:    *)
(* CassandraReservationSystem.make_reservation (Book) and                  *)
(* CassandraReservationSystem.update_reservation (Transfer) of src/main.py.*)
(* Every store call (session.execute) is one atomic step; calls of         *)
(* different threads interleave freely between store calls.                *)
(***************************************************************************)
EXTENDS Integers, Naturals, Sequences, FiniteSets, TLC

\* ------------------------------------------------------------ bounds
\* Number of Book/Transfer calls two threads start in one behaviour.
MaxOps == 2
\* Number of Book/Transfer calls one thread starts in one behaviour.
MaxSoloOps == 3
\* Store calls that end without a response (an exception) in one behaviour of
\* the specifications that bound them.
MaxFaults == 1
\* Number of Book/Transfer calls two threads start in one behaviour in which
\* every store call gets its response.
MaxRaceOps == 3
\* Largest number of rows system.peers returns.
MaxPeers == 2
\* Largest num_requests stress_test_1_same_request_rapid is run with.
MaxRequests == 20

\* The values datetime.now() returns.
Times == {0, 1}
\* Threads issuing calls.
Procs == {"p1", "p2"}
\* Seat labels used as arguments.
Seats == {"X", "Y", "Z"}
\* Movie names used as arguments: one fixture movie, one that was never inserted.
MovieNames == {"StressMovie1", "NoMovie"}
\* User ids used as arguments: two registered users, one id never registered.
UserIds == {"u1", "u2", "u0"}

\* The fixture movie and the registered users.
FixtureMovies == {"StressMovie1"}
FixtureUsers == {"u1", "u2"}

\* ------------------------------------------------------------ program constants
\* max_retries of make_reservation and update_reservation.
MaxRetries == 5
\* Nodes check_cluster_health asks for ("need at least 2 total").
QuorumNodes == 2

\* ------------------------------------------------------------ values
NoUser == "none"
\* The absent row of the reservations table.
NoRow == [user |-> NoUser, creation |-> 0, modification |-> 0]
Present(row) == row.user # NoUser
\* Primary key of the reservations table: (movie_name, seat).
Keys == MovieNames \X Seats

\* How a store call can end, as the store and the caller see it:
\*   ok              the response arrived (was_applied is definite),
\*   unknown_applied "CAS operation result is unknown", the write took effect,
\*   unknown_lost    "CAS operation result is unknown", the write did not,
\*   error           any other exception; nothing was written.
Outcomes == {"ok", "unknown_applied", "unknown_lost", "error"}
Unknown == {"unknown_applied", "unknown_lost"}

VARIABLES
    movies,        \* rows of table movies (names)
    users,         \* rows of table users (ids)
    reservations,  \* table reservations: Keys -> row
    clock,         \* the latest value datetime.now() returned
    call,          \* per thread: the call it runs, its locals and its position
    started,       \* calls started so far
    won,           \* per key: Book calls that returned True
    released,      \* keys on which a conditional delete was applied
    faults,        \* store calls that may still end in an exception (-1: any number)
    limit,         \* calls the behaviour may start
    history,       \* when kept (on): the calls that have returned, in order
    harness,       \* the stress test that drives the calls, if any: its bookkeeping
    usernames      \* column username of table users: id -> name

vars == <<movies, users, reservations, clock, call, started, won, released, faults,
          limit, history, harness, usernames>>

\* A thread that runs no call. The fields of a call: its arguments (movie, user,
\* seat, newSeat), its locals (now, orig = original_creation, attempt), its
\* position pc, its result ret ("-" while it runs) and what it did: the outcome
\* of its last store call (last), the position it returned from (via), the
\* store calls it issued (nMovieRead .. nDel), whether a write of its own took
\* effect (committed), the arguments of its last conditional insert (sent) and
\* whether all its conditional inserts carried the same arguments (sameArgs);
\* for check_cluster_health, the number of rows system.peers returned (peers).
Idle == [op |-> "idle", pc |-> "idle", movie |-> "NoMovie", user |-> "u0",
         seat |-> "X", newSeat |-> "X", now |-> 0, orig |-> 0, attempt |-> 0,
         ret |-> "-", last |-> "none", via |-> "idle",
         nMovieRead |-> 0, nUserRead |-> 0, nResRead |-> 0,
         nIns |-> 0, nDel |-> 0, committed |-> FALSE, sent |-> <<>>,
         sameArgs |-> TRUE, peers |-> 0, name |-> "none"]

\* No username: the id has no row in table users.
NoName == "none"
\* The usernames the stress tests give to the users they insert.
NameOf(u) == CASE u = "u1" -> "stressuser1" [] u = "u2" -> "stressuser2"
               [] OTHER -> "stresstest0"
StoredNames(ids) == [u \in UserIds |-> IF u \in ids THEN NameOf(u) ELSE NoName]

\* ------------------------------------------------------------ store primitives
\* A movie check that always answers True.
MovieExistsAlways(m, readFails) == TRUE

\* movie_exists: a read of table movies; an exception of the read is caught and
\* answered False.
MovieExists(m, readFails) == (~readFails) /\ m \in movies

\* A user check that always answers True.
UserExistsAlways(u, readFails) == TRUE

\* user_exists: a read of table users; an exception is answered False.
UserExists(u, readFails) == (~readFails) /\ u \in users

\* An insert without IF NOT EXISTS: it overwrites.
CondInsertBlind(table, key, row) ==
    [applied |-> TRUE, store |-> [table EXCEPT ![key] = row]]

\* An insert whose answer is read as applied whatever the store did.
CondInsertMisread(table, key, row) ==
    [applied |-> TRUE,
     store |-> IF Present(table[key]) THEN table ELSE [table EXCEPT ![key] = row]]

\* INSERT INTO reservations ... IF NOT EXISTS.
CondInsert(table, key, row) ==
    IF Present(table[key])
    THEN [applied |-> FALSE, store |-> table]
    ELSE [applied |-> TRUE, store |-> [table EXCEPT ![key] = row]]

\* A delete that answers applied for the owner's row but leaves it in place.
CondDeleteKeeps(table, key, u) == [applied |-> table[key].user = u, store |-> table]

\* DELETE FROM reservations WHERE movie_name = ? AND seat = ? IF user_id = ?.
CondDelete(table, key, u) ==
    IF table[key].user = u
    THEN [applied |-> TRUE, store |-> [table EXCEPT ![key] = NoRow]]
    ELSE [applied |-> FALSE, store |-> table]

\* A retry test that is off by one: it also retries after the last attempt.
RetryableOnceMore(out, attempt) == out \in Unknown /\ attempt < MaxRetries

\* The except clause of both retry loops: retry on the CAS-unknown message
\* unless this was the last attempt.
Retryable(out, attempt) == out \in Unknown /\ attempt < MaxRetries - 1

\* A store call may end in an exception while the behaviour's allowance lasts.
MayFail(isFault) == isFault => faults # 0
Spend(isFault) == IF isFault /\ faults > 0 THEN faults - 1 ELSE faults

\* ------------------------------------------------------------ Book
\* A row whose modification time is taken again when the insert is issued.
BookRowRestamped(u, now) == [user |-> u, creation |-> now, modification |-> clock]

\* The row make_reservation inserts: [movie, user, seat, now, now].
BookRow(u, now) == [user |-> u, creation |-> now, modification |-> now]

\* A claim row stamped as a new reservation.
ClaimRowRestamped(u, orig, now) == [user |-> u, creation |-> now, modification |-> now]

\* The row update_reservation's claim step inserts:
\* [movie, user, new_seat, original_creation, now].
ClaimRow(u, orig, now) == [user |-> u, creation |-> orig, modification |-> now]

\* An ownership check that only looks whether a row is there.
OwnershipUnchecked(row, u) == IF ~Present(row) THEN "missing" ELSE "own"

\* update_reservation's check of the row it read at the current seat:
\* "missing", "foreign" (another user's) or "own".
Ownership(row, u) ==
    IF ~Present(row) THEN "missing"
    ELSE IF row.user # u THEN "foreign" ELSE "own"

\* A make_reservation that answers True whatever the insert reported.
BookResultAlwaysTrue(applied) == "True"

\* What make_reservation returns on a definite answer.
BookResult(applied) == IF applied THEN "True" ELSE "False"

\* A make_reservation that takes an unconfirmed insert for a success.
BookUnhandledGuess == "True"

\* make_reservation's outer "except Exception: pass": the function falls off
\* its end and returns None.
BookUnhandled == "None"

\* update_reservation's outer "except Exception: return False".
TransferUnhandled == "False"

\* No record of returned calls is kept.
NoHistory == [on |-> FALSE, log |-> <<>>]
\* What is recorded of a call that returns in this step: its result and the
\* arguments and now it ran with.
Entry(c, d) == [op |-> d.op, ret |-> d.ret, last |-> d.last, movie |-> c.movie,
                user |-> c.user, seat |-> c.seat, newSeat |-> c.newSeat, now |-> c.now]
\* The record of returned calls after a step of thread p.
Logged(p) ==
    IF history.on /\ call'[p].pc = "done"
    THEN [history EXCEPT !.log = Append(@, Entry(call[p], call'[p]))]
    ELSE history

\* No task: a thread of a stress test that has not picked its next call.
NoTask == [op |-> "none", movie |-> "NoMovie", seat |-> "X", newSeat |-> "X"]
\* client_results / results of stress test 2 before anything is counted.
NoCounts == [reservations |-> 0, updates |-> 0, errors |-> 0, skipped |-> 0]
\* No stress test drives the calls. The fields: which test runs (mode), per
\* thread the call it picked (next), the seats it has submitted (submitted)
\* and the seats its make_reservation returned True for (wonBy); for stress
\* test 2 operations_per_client (ops), the threads inside "with
\* coordination_lock" (holders) and inside "with results_lock" (rholders),
\* per worker its finished iterations (iter), its client_results (count) and
\* its local user_reservations list (tracked), the shared results (total)
\* and the workers that have added theirs (merged); for run_all_stress_tests
\* where it stands (phase, step), the answers of its health checks (checks)
\* and the stress tests it has run (ran); for the end of a stress test
\* whether it has printed its results (finished), whether it then read the
\* reservations table (readBack) and the verdict it printed ("pass", "fail"
\* or "none").
NoHarness == [mode |-> "off",
              next |-> [p \in Procs |-> NoTask],
              submitted |-> [p \in Procs |-> {}],
              wonBy |-> [p \in Procs |-> {}],
              ops |-> 0,
              holders |-> {},
              rholders |-> {},
              iter |-> [p \in Procs |-> 0],
              count |-> [p \in Procs |-> NoCounts],
              tracked |-> [p \in Procs |-> <<>>],
              total |-> NoCounts,
              merged |-> {},
              phase |-> "none",
              step |-> 0,
              checks |-> <<>>,
              ran |-> <<>>,
              finished |-> FALSE,
              readBack |-> FALSE,
              verdict |-> "none"]
\* stress test 3, reserve_seat / aggressive_client: a seat whose
\* make_reservation returned True is appended to reservations_made.
ObservedSeats(p) ==
    [harness EXCEPT !.next[p] = NoTask,
                    !.wonBy[p] = IF call'[p].ret = "True"
                                 THEN @ \cup {harness.next[p].seat} ELSE @]
\* stress test 2, client_worker: a truthy result counts for the operation,
\* any other result (False or None) counts as skipped.
TallyBoth(c, op, ret) ==
    IF ret # "True" THEN [c EXCEPT !.skipped = @ + 1]
    ELSE [c EXCEPT !.reservations = @ + 1, !.updates = @ + 1]
Tally(c, op, ret) ==
    IF ret # "True" THEN [c EXCEPT !.skipped = @ + 1]
    ELSE IF op = "reserve" THEN [c EXCEPT !.reservations = @ + 1]
    ELSE [c EXCEPT !.updates = @ + 1]
\* list.remove(x): the list without the first occurrence of x.
RECURSIVE RemoveFirst(_, _)
RemoveFirst(list, x) ==
    IF list = <<>> THEN <<>>
    ELSE IF Head(list) = x THEN Tail(list)
    ELSE <<Head(list)>> \o RemoveFirst(Tail(list), x)
\* A worker that keeps the coordination lock when its call has returned.
ObservedLockedKeeps(p) ==
    [harness EXCEPT !.next[p] = NoTask,
                    !.count[p] = Tally(@, harness.next[p].op, call'[p].ret),
                    !.iter[p] = @ + 1]
\* stress test 2 with the coordination lock: the call was made inside "with
\* coordination_lock", which is left when the result has been counted.
ObservedLocked(p) ==
    [harness EXCEPT !.next[p] = NoTask,
                    !.count[p] = Tally(@, harness.next[p].op, call'[p].ret),
                    !.iter[p] = @ + 1,
                    !.holders = @ \ {p}]
\* stress test 2, optimistic: a successful call also updates the worker's
\* own list of reservations.
ObservedFree(p) ==
    LET t == harness.next[p]
        ok == call'[p].ret = "True"
    IN [harness EXCEPT
          !.next[p] = NoTask,
          !.count[p] = Tally(@, t.op, call'[p].ret),
          !.iter[p] = @ + 1,
          !.tracked[p] =
             IF ~ok THEN @
             ELSE IF t.op = "reserve" THEN Append(@, <<t.movie, t.seat>>)
             ELSE Append(RemoveFirst(@, <<t.movie, t.seat>>), <<t.movie, t.newSeat>>)]
\* run_all_stress_tests: the stress tests and their arguments, in order.
SuitePlan == << <<"stress_test_1_same_request_rapid", 50>>,
                <<"stress_test_2_random_operations", 5, 15>>,
                <<"stress_test_3_seat_race_condition", 30, 2>> >>
\* A suite that stops at any failed health check.
SuiteGoesOnIfHealthy(step, healthy) == healthy
\* run_all_stress_tests returns when its first health check (step 0) fails;
\* the answers of the checks before test 1, 2 and 3 are not looked at.
SuiteGoesOn(step, healthy) == step > 0 \/ healthy
\* run_all_stress_tests when a health check or a stress test has returned.
ObservedSuite(p) ==
    IF call'[p].op = "health"
    THEN LET healthy == call'[p].ret = "True"
         IN [harness EXCEPT
               !.checks = Append(@, healthy),
               !.phase = IF ~SuiteGoesOn(harness.step, healthy) THEN "stopped"
                         ELSE IF harness.step = 0 THEN "check" ELSE "run",
               !.step = IF SuiteGoesOn(harness.step, healthy) /\ harness.step = 0
                        THEN 1 ELSE @]
    ELSE [harness EXCEPT
            !.ran = Append(@, SuitePlan[harness.step]),
            !.phase = IF harness.step = Len(SuitePlan) THEN "end" ELSE "check",
            !.step = IF harness.step = Len(SuitePlan) THEN @ ELSE @ + 1]
\* What the stress test notes when the call of thread p returns in this step.
Observed(p) ==
    IF call'[p].pc # "done" THEN harness
    ELSE CASE harness.mode = "seats" -> ObservedSeats(p)
           [] harness.mode = "locked" -> ObservedLocked(p)
           [] harness.mode = "free" -> ObservedFree(p)
           [] harness.mode = "suite" -> ObservedSuite(p)
           [] OTHER -> harness

\* The call has returned v from position c.pc; l is the outcome of its last
\* store call. Its arguments, locals and write counters are dead from then on.
Done(c, v, l) ==
    [Idle EXCEPT !.op = c.op, !.pc = "done", !.ret = v, !.last = l, !.via = c.pc,
                 !.nMovieRead = c.nMovieRead, !.nUserRead = c.nUserRead,
                 !.nResRead = c.nResRead, !.committed = c.committed,
                 !.sameArgs = c.sameArgs, !.peers = c.peers]

\* What the caller sees of an outcome that is not a response.
Seen(out) == IF out = "error" THEN "error" ELSE "unknown"

TypeOK ==
    /\ movies \subseteq MovieNames
    /\ users \subseteq UserIds
    /\ clock \in Times
    /\ limit \in {MaxOps, MaxSoloOps, MaxRaceOps} \cup 1..MaxRequests
    /\ started \in 0..limit
    /\ released \subseteq Keys
    /\ \A k \in Keys : won[k] \in 0..limit
    /\ faults \in -1..MaxFaults
    /\ \A p \in Procs : call[p].attempt \in 0..(MaxRetries - 1)
    /\ history.on \in BOOLEAN /\ Len(history.log) <= started

\* The table after a successful make_reservation(m, u, s) at time 0.
Held(m, u, s) == [k \in Keys |-> IF k = <<m, s>> THEN BookRow(u, 0) ELSE NoRow]

\* The store after construction (reset_cassandra), the fixture inserts and one
\* successful make_reservation: seat X is booked by u1.
Init ==
    /\ movies = FixtureMovies
    /\ users = FixtureUsers
    /\ reservations = Held("StressMovie1", "u1", "X")
    /\ clock = 0
    /\ call = [p \in Procs |-> Idle]
    /\ started = 0
    /\ won = [k \in Keys |-> 0]
    /\ released = {}
    /\ faults = MaxFaults
    /\ limit = MaxOps
    /\ usernames = StoredNames(users)
    /\ history = NoHistory
    /\ harness = NoHarness

\* datetime.now(): any time not before the latest one returned.
Now == {t \in Times : t >= clock}

\* make_reservation is called; its first statement checks the movie.
BookCall(p, m, u, s) ==
    /\ call[p].pc \in {"idle", "done"}
    /\ started < limit
    /\ started' = started + 1
    /\ \E readFails \in BOOLEAN :
         /\ MayFail(readFails)
         /\ faults' = Spend(readFails)
         /\ LET c == [Idle EXCEPT !.op = "book", !.pc = "b_movie", !.movie = m,
                                  !.user = u, !.seat = s, !.newSeat = s,
                                  !.nMovieRead = 1]
            IN call' = [call EXCEPT ![p] =
                IF MovieExists(m, readFails)
                THEN [c EXCEPT !.pc = "b_user"]
                ELSE Done(c, "False", IF readFails THEN "error" ELSE "none")]
    /\ UNCHANGED <<movies, users, reservations, clock, won, released, limit>>
    /\ history' = Logged(p)
    /\ harness' = Observed(p)
    /\ UNCHANGED usernames

\* make_reservation checks the user, then takes now.
BookUserCheck(p) ==
    /\ call[p].pc = "b_user"
    /\ \E readFails \in BOOLEAN, t \in Now :
         LET c == [call[p] EXCEPT !.nUserRead = @ + 1]
             found == UserExists(c.user, readFails)
         IN /\ MayFail(readFails)
            /\ faults' = Spend(readFails)
            /\ call' = [call EXCEPT ![p] =
                  IF found
                  THEN [c EXCEPT !.pc = "b_insert", !.now = t, !.attempt = 0]
                  ELSE Done(c, "False", IF readFails THEN "error" ELSE "none")]
            /\ clock' = IF found THEN t ELSE clock
    /\ UNCHANGED <<movies, users, reservations, started, won, released, limit>>
    /\ history' = Logged(p)
    /\ harness' = Observed(p)
    /\ UNCHANGED usernames

\* One pass of make_reservation's retry loop: the conditional insert and what
\* follows its answer or its exception.
BookInsert(p) ==
    LET c == call[p]
        key == <<c.movie, c.seat>>
        row == BookRow(c.user, c.now)
        r == CondInsert(reservations, key, row)
    IN /\ c.pc = "b_insert"
       /\ \E out \in Outcomes :
            LET wrote == out \in {"ok", "unknown_applied"} /\ r.applied
                c1 == [c EXCEPT !.nIns = @ + 1, !.sent = <<key, row>>,
                                !.sameArgs = @ /\ (c.nIns = 0 \/ c.sent = <<key, row>>),
                                !.committed = @ \/ wrote]
                v == BookResult(r.applied)
            IN /\ MayFail(out # "ok")
               /\ faults' = Spend(out # "ok")
               /\ reservations' = IF out \in {"ok", "unknown_applied"}
                                  THEN r.store ELSE reservations
               /\ call' = [call EXCEPT ![p] =
                     CASE out = "ok" ->
                            Done(c1, v, IF r.applied THEN "applied" ELSE "not_applied")
                       [] Retryable(out, c.attempt) ->
                            [c1 EXCEPT !.attempt = @ + 1, !.last = "unknown"]
                       [] OTHER -> Done(c1, BookUnhandled, Seen(out))]
               /\ won' = IF out = "ok" /\ v = "True"
                         THEN [won EXCEPT ![key] = @ + 1] ELSE won
       /\ UNCHANGED <<movies, users, clock, started, released, limit>>
       /\ history' = Logged(p)
       /\ harness' = Observed(p)
    /\ UNCHANGED usernames

\* update_reservation is called; its first statement checks the movie.
TransferCall(p, m, cur, new, u) ==
    /\ call[p].pc \in {"idle", "done"}
    /\ started < limit
    /\ started' = started + 1
    /\ \E readFails \in BOOLEAN :
         /\ MayFail(readFails)
         /\ faults' = Spend(readFails)
         /\ LET c == [Idle EXCEPT !.op = "transfer", !.pc = "t_movie", !.movie = m,
                                  !.user = u, !.seat = cur, !.newSeat = new,
                                  !.nMovieRead = 1]
            IN call' = [call EXCEPT ![p] =
                IF MovieExists(m, readFails)
                THEN [c EXCEPT !.pc = "t_user"]
                ELSE Done(c, "False", IF readFails THEN "error" ELSE "none")]
    /\ UNCHANGED <<movies, users, reservations, clock, won, released, limit>>
    /\ history' = Logged(p)
    /\ harness' = Observed(p)
    /\ UNCHANGED usernames

\* update_reservation checks the user, then takes now.
TransferUserCheck(p) ==
    /\ call[p].pc = "t_user"
    /\ \E readFails \in BOOLEAN, t \in Now :
         LET c == [call[p] EXCEPT !.nUserRead = @ + 1]
             found == UserExists(c.user, readFails)
         IN /\ MayFail(readFails)
            /\ faults' = Spend(readFails)
            /\ call' = [call EXCEPT ![p] =
                  IF found
                  THEN [c EXCEPT !.pc = "t_read", !.now = t]
                  ELSE Done(c, "False", IF readFails THEN "error" ELSE "none")]
            /\ clock' = IF found THEN t ELSE clock
    /\ UNCHANGED <<movies, users, reservations, started, won, released, limit>>
    /\ history' = Logged(p)
    /\ harness' = Observed(p)
    /\ UNCHANGED usernames

\* Whether update_reservation has nothing to move.
SameSeatNever(cur, new) == FALSE
SameSeat(cur, new) == new = cur

\* update_reservation reads the reservation at the current seat and decides
\* whether there is anything to move.
TransferRead(p) ==
    LET c0 == call[p]
        c == [c0 EXCEPT !.nResRead = @ + 1]
        row == reservations[<<c.movie, c.seat>>]
        own == Ownership(row, c.user)
    IN /\ c0.pc = "t_read"
       /\ \E readFails \in BOOLEAN :
            /\ MayFail(readFails)
            /\ faults' = Spend(readFails)
            /\ call' = [call EXCEPT ![p] =
               CASE readFails -> Done(c, TransferUnhandled, "error")
                 [] own # "own" -> Done(c, "False", own)
                 [] SameSeat(c.seat, c.newSeat) -> Done(c, "True", "same")
                 [] OTHER -> [c EXCEPT !.pc = "t_claim", !.orig = row.creation,
                                       !.attempt = 0]]
       /\ UNCHANGED <<movies, users, reservations, clock, started, won, released, limit>>
       /\ history' = Logged(p)
       /\ harness' = Observed(p)
    /\ UNCHANGED usernames

\* Step 1 of a pass of update_reservation's retry loop: claim the new seat.
TransferClaim(p) ==
    LET c == call[p]
        key == <<c.movie, c.newSeat>>
        row == ClaimRow(c.user, c.orig, c.now)
        r == CondInsert(reservations, key, row)
    IN /\ c.pc = "t_claim"
       /\ \E out \in Outcomes :
            LET wrote == out \in {"ok", "unknown_applied"} /\ r.applied
                c1 == [c EXCEPT !.nIns = @ + 1, !.sent = <<key, row>>,
                                !.sameArgs = @ /\ (c.nIns = 0 \/ c.sent = <<key, row>>),
                                !.committed = @ \/ wrote]
            IN /\ MayFail(out # "ok")
               /\ faults' = Spend(out # "ok")
               /\ reservations' = IF out \in {"ok", "unknown_applied"}
                                  THEN r.store ELSE reservations
               /\ call' = [call EXCEPT ![p] =
                     CASE out = "ok" /\ r.applied ->
                            [c1 EXCEPT !.pc = "t_release", !.last = "applied"]
                       [] out = "ok" /\ ~r.applied -> Done(c1, "False", "not_applied")
                       [] Retryable(out, c.attempt) ->
                            [c1 EXCEPT !.attempt = @ + 1, !.last = "unknown"]
                       [] OTHER -> Done(c1, TransferUnhandled, Seen(out))]
       /\ UNCHANGED <<movies, users, clock, started, won, released, limit>>
       /\ history' = Logged(p)
       /\ harness' = Observed(p)
    /\ UNCHANGED usernames

\* Step 2 of the pass: release the old seat.
TransferRelease(p) ==
    LET c == call[p]
        key == <<c.movie, c.seat>>
        d == CondDelete(reservations, key, c.user)
    IN /\ c.pc = "t_release"
       /\ \E out \in Outcomes :
            LET wrote == out \in {"ok", "unknown_applied"} /\ d.applied
                c1 == [c EXCEPT !.nDel = @ + 1]
            IN /\ MayFail(out # "ok")
               /\ faults' = Spend(out # "ok")
               /\ reservations' = IF wrote THEN d.store ELSE reservations
               /\ released' = IF wrote THEN released \cup {key} ELSE released
               /\ call' = [call EXCEPT ![p] =
                     CASE out = "ok" /\ d.applied -> Done(c1, "True", "applied")
                       [] out = "ok" /\ ~d.applied ->
                            [c1 EXCEPT !.pc = "t_comp", !.last = "not_applied"]
                       [] Retryable(out, c.attempt) ->
                            [c1 EXCEPT !.pc = "t_claim", !.attempt = @ + 1,
                                       !.last = "unknown"]
                       [] OTHER -> Done(c1, TransferUnhandled, Seen(out))]
       /\ UNCHANGED <<movies, users, clock, started, won, limit>>
       /\ history' = Logged(p)
       /\ harness' = Observed(p)
    /\ UNCHANGED usernames

\* A rollback aimed at the seat the call came from.
CompKeyOld(c) == <<c.movie, c.seat>>
\* The key of the rollback delete: [movie_name, new_seat_name].
CompKey(c) == <<c.movie, c.newSeat>>

\* The rollback after a release that was not applied: delete the new seat's
\* row, whatever the answer.
TransferCompensate(p) ==
    LET c == call[p]
        key == CompKey(c)
        d == CondDelete(reservations, key, c.user)
    IN /\ c.pc = "t_comp"
       /\ \E out \in Outcomes :
            LET wrote == out \in {"ok", "unknown_applied"} /\ d.applied
                c1 == [c EXCEPT !.nDel = @ + 1]
            IN /\ MayFail(out # "ok")
               /\ faults' = Spend(out # "ok")
               /\ reservations' = IF wrote THEN d.store ELSE reservations
               /\ released' = IF wrote THEN released \cup {key} ELSE released
               /\ call' = [call EXCEPT ![p] =
                     CASE out = "ok" ->
                            Done(c1, "False", IF d.applied THEN "applied" ELSE "not_applied")
                       [] Retryable(out, c.attempt) ->
                            [c1 EXCEPT !.pc = "t_claim", !.attempt = @ + 1,
                                       !.last = "unknown"]
                       [] OTHER -> Done(c1, TransferUnhandled, Seen(out))]
       /\ UNCHANGED <<movies, users, clock, started, won, limit>>
       /\ history' = Logged(p)
       /\ harness' = Observed(p)
    /\ UNCHANGED usernames

\* Book and Transfer calls of two threads on three seats, one of them booked,
\* for the fixture movie and the registered users, with a bounded number of
\* store calls ending in an exception.
Next ==
    \/ \E p \in Procs, m \in FixtureMovies, u \in FixtureUsers, s \in Seats :
           BookCall(p, m, u, s)
    \/ \E p \in Procs : BookUserCheck(p)
    \/ \E p \in Procs : BookInsert(p)
    \/ \E p \in Procs, m \in FixtureMovies, u \in FixtureUsers, cur \in Seats, new \in Seats :
           TransferCall(p, m, cur, new, u)
    \/ \E p \in Procs : TransferUserCheck(p)
    \/ \E p \in Procs : TransferRead(p)
    \/ \E p \in Procs : TransferClaim(p)
    \/ \E p \in Procs : TransferRelease(p)
    \/ \E p \in Procs : TransferCompensate(p)

Spec == Init /\ [][Next]_vars

\* The store after construction and the fixture inserts; any number of store
\* calls may end in an exception.
InitFree(n) ==
    /\ movies = FixtureMovies
    /\ users = FixtureUsers
    /\ reservations = [k \in Keys |-> NoRow]
    /\ clock = 0
    /\ call = [p \in Procs |-> Idle]
    /\ started = 0
    /\ won = [k \in Keys |-> 0]
    /\ released = {}
    /\ faults = -1
    /\ limit = n
    /\ usernames = StoredNames(users)
    /\ history = NoHistory
    /\ harness = NoHarness

\* Seats the Book-only behaviours contend for.
BookSeats == {"X", "Y"}

\* Concurrent Book calls only (no Transfer, so no seat is ever released), every
\* pattern of exceptions.
NextBook ==
    \/ \E p \in Procs, m \in MovieNames, u \in UserIds, s \in BookSeats : BookCall(p, m, u, s)
    \/ \E p \in Procs : BookUserCheck(p)
    \/ \E p \in Procs : BookInsert(p)

SpecBook == InitFree(MaxOps) /\ [][NextBook]_vars

\* One thread issuing Book and Transfer calls one after the other, every
\* pattern of exceptions.
NextSolo ==
    \/ \E m \in MovieNames, u \in UserIds, s \in Seats : BookCall("p1", m, u, s)
    \/ BookUserCheck("p1")
    \/ BookInsert("p1")
    \/ \E m \in MovieNames, u \in UserIds, cur \in Seats, new \in Seats :
           TransferCall("p1", m, cur, new, u)
    \/ TransferUserCheck("p1")
    \/ TransferRead("p1")
    \/ TransferClaim("p1")
    \/ TransferRelease("p1")

SpecSolo == InitFree(MaxSoloOps) /\ [][NextSolo]_vars

\* The store after the fixture inserts and one successful make_reservation:
\* seat X is booked by u1; every store call gets its response.
InitRace ==
    /\ movies = FixtureMovies
    /\ users = FixtureUsers
    /\ reservations = Held("StressMovie1", "u1", "X")
    /\ clock = 0
    /\ call = [p \in Procs |-> Idle]
    /\ started = 0
    /\ won = [k \in Keys |-> 0]
    /\ released = {}
    /\ faults = 0
    /\ limit = MaxRaceOps
    /\ usernames = StoredNames(users)
    /\ history = NoHistory
    /\ harness = NoHarness

\* Book and Transfer calls of two threads racing for three seats, with no
\* exceptions: the same actions as Next.
SpecRace == InitRace /\ [][Next]_vars

\* The store after construction and the fixture inserts; the calls that return
\* are recorded and the exceptions are bounded.
InitTrip ==
    /\ movies = FixtureMovies
    /\ users = FixtureUsers
    /\ reservations = [k \in Keys |-> NoRow]
    /\ clock = 0
    /\ call = [p \in Procs |-> Idle]
    /\ started = 0
    /\ won = [k \in Keys |-> 0]
    /\ released = {}
    /\ faults = MaxFaults
    /\ limit = MaxSoloOps
    /\ usernames = StoredNames(users)
    /\ history = [NoHistory EXCEPT !.on = TRUE]
    /\ harness = NoHarness

\* The user whose calls are recorded.
TripUsers == {"u1"}

\* One thread issuing Book and Transfer calls of one user for the fixture movie
\* on two seats, one after the other, with a bounded number of store calls
\* ending in an exception.
NextTrip ==
    \/ \E m \in FixtureMovies, u \in TripUsers, s \in BookSeats : BookCall("p1", m, u, s)
    \/ BookUserCheck("p1")
    \/ BookInsert("p1")
    \/ \E m \in FixtureMovies, u \in TripUsers, cur \in BookSeats, new \in BookSeats :
           TransferCall("p1", m, cur, new, u)
    \/ TransferUserCheck("p1")
    \/ TransferRead("p1")
    \/ TransferClaim("p1")
    \/ TransferRelease("p1")

SpecTrip == InitTrip /\ [][NextTrip]_vars

\* The process dies between the answer to the claim insert and the release
\* delete: the call never returns and issues nothing more.
Crash(p) ==
    /\ call[p].pc = "t_release"
    /\ call' = [call EXCEPT ![p] = Done(call[p], "Crash", call[p].last)]
    /\ UNCHANGED <<movies, users, reservations, clock, started, won, released, faults, limit>>
    /\ history' = Logged(p)
    /\ harness' = Observed(p)
    /\ UNCHANGED usernames

\* The store after the fixture inserts and one successful make_reservation:
\* seat X is booked by u1; the calls that return or die are recorded and the
\* exceptions are bounded.
InitCrash ==
    /\ movies = FixtureMovies
    /\ users = FixtureUsers
    /\ reservations = Held("StressMovie1", "u1", "X")
    /\ clock = 0
    /\ call = [p \in Procs |-> Idle]
    /\ started = 0
    /\ won = [k \in Keys |-> 0]
    /\ released = {}
    /\ faults = MaxFaults
    /\ limit = MaxOps
    /\ usernames = StoredNames(users)
    /\ history = [NoHistory EXCEPT !.on = TRUE]
    /\ harness = NoHarness

\* One thread issuing Book and Transfer calls of the registered users on two
\* seats, recorded, where the process may die before a release.
NextCrash ==
    \/ \E m \in FixtureMovies, u \in FixtureUsers, s \in BookSeats : BookCall("p1", m, u, s)
    \/ BookUserCheck("p1")
    \/ BookInsert("p1")
    \/ \E m \in FixtureMovies, u \in FixtureUsers, cur \in BookSeats, new \in BookSeats :
           TransferCall("p1", m, cur, new, u)
    \/ TransferUserCheck("p1")
    \/ TransferRead("p1")
    \/ TransferClaim("p1")
    \/ TransferRelease("p1")
    \/ Crash("p1")

SpecCrash == InitCrash /\ [][NextCrash]_vars

\* ------------------------------------------------------------ cluster health
\* A health test that forgets the local node.
HealthResultPeersOnly(nPeers) == IF nPeers >= QuorumNodes THEN "True" ELSE "False"

\* check_cluster_health's verdict: total_nodes = len(active_peers) + 1 >= 2.
HealthResult(nPeers) == IF nPeers + 1 >= QuorumNodes THEN "True" ELSE "False"

\* The value check_cluster_health's except clause returns.
HealthUnhandled == "False"

\* check_cluster_health is called; it reads system.local.
HealthCall(p) ==
    /\ call[p].pc \in {"idle", "done"}
    /\ started < limit
    /\ started' = started + 1
    /\ \E readFails \in BOOLEAN :
         /\ MayFail(readFails)
         /\ faults' = Spend(readFails)
         /\ LET c == [Idle EXCEPT !.op = "health", !.pc = "h_local"]
            IN call' = [call EXCEPT ![p] =
                IF readFails THEN Done(c, HealthUnhandled, "error")
                ELSE [c EXCEPT !.pc = "h_peers"]]
    /\ UNCHANGED <<movies, users, reservations, clock, won, released, limit>>
    /\ history' = Logged(p)
    /\ harness' = Observed(p)
    /\ UNCHANGED usernames

\* check_cluster_health reads system.peers and decides.
HealthPeers(p) ==
    /\ call[p].pc = "h_peers"
    /\ \E readFails \in BOOLEAN, n \in 0..MaxPeers :
         /\ MayFail(readFails)
         /\ faults' = Spend(readFails)
         /\ call' = [call EXCEPT ![p] =
               IF readFails THEN Done(call[p], HealthUnhandled, "error")
               ELSE Done([call[p] EXCEPT !.peers = n], HealthResult(n), "none")]
    /\ UNCHANGED <<movies, users, reservations, clock, started, won, released, limit>>
    /\ history' = Logged(p)
    /\ harness' = Observed(p)
    /\ UNCHANGED usernames

\* One thread booking seats while another asks for the cluster's health,
\* every pattern of exceptions.
NextHealth ==
    \/ \E m \in FixtureMovies, u \in FixtureUsers, s \in BookSeats : BookCall("p1", m, u, s)
    \/ BookUserCheck("p1")
    \/ BookInsert("p1")
    \/ HealthCall("p2")
    \/ HealthPeers("p2")

SpecHealth == InitFree(MaxOps) /\ [][NextHealth]_vars

\* ------------------------------------------------------------ stress test 1
Min(a, b) == IF a <= b THEN a ELSE b

\* max_workers of stress_test_1_same_request_rapid: min(10, num_requests // 10).
PoolSize(n) == Min(10, n \div 10)

\* The threads of a pool of the given size (ThreadPoolExecutor refuses size 0,
\* so an empty pool runs nothing).
Rank(p) == IF p = "p1" THEN 1 ELSE 2
PoolThreads(size) == {p \in Procs : Rank(p) <= size}

\* The seat and the user of the identical requests.
RapidSeat == "Z"
RapidUser == "u1"

\* The store after reset_cassandra and the inserts of the movie and the user;
\* num_requests (limit) is any number up to MaxRequests.
InitRapid ==
    /\ movies = FixtureMovies
    /\ users = {RapidUser}
    /\ reservations = [k \in Keys |-> NoRow]
    /\ clock = 0
    /\ call = [p \in Procs |-> Idle]
    /\ started = 0
    /\ won = [k \in Keys |-> 0]
    /\ released = {}
    /\ faults = MaxFaults
    /\ limit \in 1..MaxRequests
    /\ usernames = StoredNames(users)
    /\ history = NoHistory
    /\ harness = NoHarness

\* The pool's threads take the submitted requests one after the other; each
\* is make_reservation(movie_name, user_id, seat_name).
NextRapid ==
    \/ \E p \in PoolThreads(PoolSize(limit)), m \in FixtureMovies :
           BookCall(p, m, RapidUser, RapidSeat)
    \/ \E p \in Procs : BookUserCheck(p)
    \/ \E p \in Procs : BookInsert(p)

SpecRapid == InitRapid /\ [][NextRapid]_vars

\* ------------------------------------------------------------ stress test 3
\* seats[:num_seats]: the first n seat labels.
SeatOrder == <<"X", "Y", "Z">>
FirstSeats(n) == {SeatOrder[i] : i \in 1..Min(n, Len(SeatOrder))}

\* The user each of the two racing clients books for.
RaceUser(p) == IF p = "p1" THEN "u1" ELSE "u2"

\* The store after reset_cassandra and the inserts of the movie and the two
\* users; num_seats is 1, 2 or 3 and limit = 2 * num_seats calls are made.
InitSeats ==
    /\ movies = FixtureMovies
    /\ users = FixtureUsers
    /\ reservations = [k \in Keys |-> NoRow]
    /\ clock = 0
    /\ call = [p \in Procs |-> Idle]
    /\ started = 0
    /\ won = [k \in Keys |-> 0]
    /\ released = {}
    /\ faults = MaxFaults
    /\ limit \in {2 * n : n \in 1..Len(SeatOrder)}
    /\ usernames = StoredNames(users)
    /\ history = NoHistory
    /\ harness = [NoHarness EXCEPT !.mode = "seats"]

\* A client takes the next of its seats, in any order, each seat once.
SeatsSubmit(p, s) ==
    /\ harness.mode = "seats"
    /\ call[p].pc \in {"idle", "done"}
    /\ harness.next[p] = NoTask
    /\ s \notin harness.submitted[p]
    /\ harness' = [harness EXCEPT
          !.next[p] = [op |-> "reserve", movie |-> "StressMovie1", seat |-> s, newSeat |-> s],
          !.submitted[p] = @ \cup {s}]
    /\ UNCHANGED <<movies, users, reservations, clock, call, started, won, released,
                   faults, limit, history, usernames>>

\* reserve_seat: make_reservation(movie_name, user_id, seat) for the seat taken.
SeatsBook(p) ==
    /\ harness.next[p].op = "reserve"
    /\ BookCall(p, harness.next[p].movie, RaceUser(p), harness.next[p].seat)

\* Each of the two clients books every seat once for its own user.
NextSeats ==
    \/ \E p \in Procs, s \in FirstSeats(limit \div 2) : SeatsSubmit(p, s)
    \/ \E p \in Procs : SeatsBook(p)
    \/ \E p \in Procs : BookUserCheck(p)
    \/ \E p \in Procs : BookInsert(p)

SpecSeats == InitSeats /\ [][NextSeats]_vars

\* ------------------------------------------------------------ stress test 2
\* operations_per_client is at most MaxIters.
MaxIters == 2

\* The seats of stress test 2.
StressSeats == BookSeats

\* The store after reset_cassandra and the inserts of the movie and of one
\* user per worker; the test runs with the coordination lock ("locked") or
\* as the optimistic variant ("free"). The whole run falls into the last
\* clock value, so every call of the run takes the same time stamp.
InitStress ==
    /\ movies = FixtureMovies
    /\ users = FixtureUsers
    /\ reservations = [k \in Keys |-> NoRow]
    /\ clock = 1
    /\ call = [p \in Procs |-> Idle]
    /\ started = 0
    /\ won = [k \in Keys |-> 0]
    /\ released = {}
    /\ faults = MaxFaults
    /\ usernames = StoredNames(users)
    /\ history = NoHistory
    /\ \E mode \in {"locked", "free"}, n \in 1..MaxIters :
         /\ limit = 2 * n
         /\ harness = [NoHarness EXCEPT !.mode = mode, !.ops = n]

\* threading.Lock: it can be taken when no thread is inside.
LockFreeAlways(inside) == TRUE
LockFree(inside) == inside = {}

\* client_worker, "with coordination_lock": the worker enters.
StressAcquire(p) ==
    /\ harness.mode = "locked"
    /\ harness.iter[p] < harness.ops
    /\ p \notin harness.holders
    /\ LockFree(harness.holders)
    /\ harness' = [harness EXCEPT !.holders = @ \cup {p}]
    /\ UNCHANGED <<movies, users, reservations, clock, call, started, won, released,
                   faults, limit, history, usernames>>

\* The worker leaves the iteration without a call: one skipped operation.
Skipped(p) ==
    [harness EXCEPT !.count[p] = [@ EXCEPT !.skipped = @ + 1],
                    !.iter[p] = @ + 1,
                    !.holders = @ \ {p}]

\* The call the worker has decided on.
Picked(p, op, m, cur, new) ==
    [harness EXCEPT !.next[p] = [op |-> op, movie |-> m, seat |-> cur, newSeat |-> new]]

\* client_worker inside the lock: get_current_state_from_db (an exception
\* gives the empty state), then the choice of a free seat for a reserve, or
\* of one of the user's seats and a free seat for an update.
StressRead(p, op, m, cur, new) ==
    /\ harness.mode = "locked"
    /\ p \in harness.holders
    /\ harness.next[p] = NoTask
    /\ call[p].pc \in {"idle", "done"}
    /\ \E readFails \in BOOLEAN :
         /\ MayFail(readFails)
         /\ faults' = Spend(readFails)
         /\ LET seen == IF readFails THEN [k \in Keys |-> NoRow] ELSE reservations
                empty(mv) == {s \in StressSeats : ~Present(seen[<<mv, s>>])}
                mine == {k \in Keys : seen[k].user = RaceUser(p)}
            IN IF op = "reserve"
               THEN IF empty(m) = {}
                    THEN harness' = Skipped(p)
                    ELSE new \in empty(m) /\ harness' = Picked(p, op, m, new, new)
               ELSE IF mine = {}
                    THEN harness' = Skipped(p)
                    ELSE /\ <<m, cur>> \in mine
                         /\ IF empty(m) = {}
                            THEN harness' = Skipped(p)
                            ELSE new \in empty(m) /\ harness' = Picked(p, op, m, cur, new)
    /\ UNCHANGED <<movies, users, reservations, clock, call, started, won, released,
                   limit, history, usernames>>

\* client_worker of the optimistic variant: a reserve of any seat, or, when
\* the worker's own list is not empty, an update of one of its entries to
\* any seat; an update to the same seat is skipped.
StressPick(p, op, m, cur, new) ==
    /\ harness.mode = "free"
    /\ harness.iter[p] < harness.ops
    /\ harness.next[p] = NoTask
    /\ call[p].pc \in {"idle", "done"}
    /\ new \in StressSeats
    /\ IF op = "reserve"
       THEN harness' = Picked(p, op, m, new, new)
       ELSE /\ \E i \in 1..Len(harness.tracked[p]) : harness.tracked[p][i] = <<m, cur>>
            /\ IF cur # new
               THEN harness' = Picked(p, op, m, cur, new)
               ELSE harness' = Skipped(p)
    /\ UNCHANGED <<movies, users, reservations, clock, call, started, won, released,
                   faults, limit, history, usernames>>

\* The worker issues the call it decided on.
StressBook(p) ==
    /\ harness.next[p].op = "reserve"
    /\ BookCall(p, harness.next[p].movie, RaceUser(p), harness.next[p].seat)
StressTransfer(p) ==
    /\ harness.next[p].op = "update"
    /\ TransferCall(p, harness.next[p].movie, harness.next[p].seat,
                    harness.next[p].newSeat, RaceUser(p))

\* client_worker after its loop, "with results_lock": the worker enters.
MergeAcquire(p) ==
    /\ harness.mode \in {"locked", "free"}
    /\ harness.iter[p] = harness.ops
    /\ p \notin harness.merged
    /\ p \notin harness.rholders
    /\ LockFree(harness.rholders)
    /\ harness' = [harness EXCEPT !.rholders = @ \cup {p}]
    /\ UNCHANGED <<movies, users, reservations, clock, call, started, won, released,
                   faults, limit, history, usernames>>

\* results[key] += value for the four counters.
Sum(a, b) == [reservations |-> a.reservations + b.reservations,
              updates |-> a.updates + b.updates,
              errors |-> a.errors + b.errors,
              skipped |-> a.skipped + b.skipped]

\* The worker adds its counters to the shared results and leaves the lock.
Merge(p) ==
    /\ p \in harness.rholders
    /\ harness' = [harness EXCEPT !.total = Sum(@, harness.count[p]),
                                  !.merged = @ \cup {p},
                                  !.rholders = @ \ {p}]
    /\ UNCHANGED <<movies, users, reservations, clock, call, started, won, released,
                   faults, limit, history, usernames>>

\* Every worker moves only rows of its own user and runs one call at a time,
\* so no release is answered not-applied and the rollback is never entered.
NextStress ==
    \/ \E p \in Procs : StressAcquire(p)
    \/ \E p \in Procs, op \in {"reserve", "update"}, m \in FixtureMovies,
          cur \in StressSeats, new \in StressSeats : StressRead(p, op, m, cur, new)
    \/ \E p \in Procs, op \in {"reserve", "update"}, m \in FixtureMovies,
          cur \in StressSeats, new \in StressSeats : StressPick(p, op, m, cur, new)
    \/ \E p \in Procs : StressBook(p)
    \/ \E p \in Procs : StressTransfer(p)
    \/ \E p \in Procs : BookUserCheck(p)
    \/ \E p \in Procs : BookInsert(p)
    \/ \E p \in Procs : TransferUserCheck(p)
    \/ \E p \in Procs : TransferRead(p)
    \/ \E p \in Procs : TransferClaim(p)
    \/ \E p \in Procs : TransferRelease(p)
    \/ \E p \in Procs : MergeAcquire(p)
    \/ \E p \in Procs : Merge(p)

SpecStress == InitStress /\ [][NextStress]_vars

\* The end of stress test 2 after concurrent.futures.wait: the variant with
\* the lock prints the counters, calls list_all_reservations and prints the
\* number of rows in total and per movie; the optimistic variant prints the
\* counters only. Neither compares anything or prints a verdict.
StressFinish ==
    /\ harness.mode \in {"locked", "free"}
    /\ harness.merged = Procs
    /\ ~harness.finished
    /\ harness' = [harness EXCEPT !.finished = TRUE,
                                  !.readBack = (harness.mode = "locked"),
                                  !.verdict = "none"]
    /\ UNCHANGED <<movies, users, reservations, clock, call, started, won, released,
                   faults, limit, history, usernames>>

\* stress test 2, either variant, run to its end.
NextEnding ==
    \/ NextStress
    \/ StressFinish

SpecEnding == InitStress /\ [][NextEnding]_vars

\* stress test 2 with the coordination lock only.
InitLocked == InitStress /\ harness.mode = "locked"
NextLocked ==
    \/ \E p \in Procs : StressAcquire(p)
    \/ \E p \in Procs, op \in {"reserve", "update"}, m \in FixtureMovies,
          cur \in StressSeats, new \in StressSeats : StressRead(p, op, m, cur, new)
    \/ \E p \in Procs : StressBook(p)
    \/ \E p \in Procs : StressTransfer(p)
    \/ \E p \in Procs : BookUserCheck(p)
    \/ \E p \in Procs : BookInsert(p)
    \/ \E p \in Procs : TransferUserCheck(p)
    \/ \E p \in Procs : TransferRead(p)
    \/ \E p \in Procs : TransferClaim(p)
    \/ \E p \in Procs : TransferRelease(p)
    \/ \E p \in Procs : MergeAcquire(p)
    \/ \E p \in Procs : Merge(p)

\* The threads of the pool keep running: some step is taken whenever one is
\* possible.
FairLocked == InitLocked /\ [][NextLocked]_vars /\ WF_vars(NextLocked)

\* ------------------------------------------------------------ scenario set-up
\* A user of an earlier run, and the store that run left behind: the user
\* holds seat X.
EarlierUser == "u0"
InitScenario ==
    /\ movies = FixtureMovies
    /\ users = {EarlierUser}
    /\ reservations = Held("StressMovie1", EarlierUser, "X")
    /\ clock = 0
    /\ call = [p \in Procs |-> Idle]
    /\ started = 0
    /\ won = [k \in Keys |-> 0]
    /\ released = {}
    /\ faults = MaxFaults
    /\ limit \in {2 * n : n \in 1..Len(SeatOrder)}
    /\ usernames = StoredNames(users)
    /\ history = NoHistory
    /\ harness = [NoHarness EXCEPT !.mode = "reset"]

\* reset_cassandra: DROP KEYSPACE and the schema file empty every table; an
\* exception of the store is printed and the caller goes on.
ResetCassandra ==
    /\ harness.mode = "reset"
    /\ \E dropFails \in BOOLEAN :
         /\ MayFail(dropFails)
         /\ faults' = Spend(dropFails)
         /\ IF dropFails
            THEN UNCHANGED <<movies, users, reservations, usernames>>
            ELSE /\ movies' = {}
                 /\ users' = {}
                 /\ usernames' = StoredNames({})
                 /\ reservations' = [k \in Keys |-> NoRow]
    /\ harness' = [harness EXCEPT !.mode = "fixtures"]
    /\ UNCHANGED <<clock, call, started, won, released, limit, history>>

\* stress_test_3 after the reset: insert_movie and the two insert_user
\* calls; then the clients are started.
InsertFixtures ==
    /\ harness.mode = "fixtures"
    /\ movies' = movies \cup FixtureMovies
    /\ users' = users \cup FixtureUsers
    /\ usernames' = [u \in UserIds |-> IF u \in FixtureUsers THEN NameOf(u)
                                       ELSE usernames[u]]
    /\ harness' = [harness EXCEPT !.mode = "seats"]
    /\ UNCHANGED <<reservations, clock, call, started, won, released, faults, limit,
                   history>>

NextScenario ==
    \/ ResetCassandra
    \/ InsertFixtures
    \/ NextSeats

SpecScenario == InitScenario /\ [][NextScenario]_vars

\* ------------------------------------------------------------ registration
\* The usernames registrations ask for.
Usernames == {"stresstest0", "stresstest1"}

\* Table users: key = id. INSERT ... IF NOT EXISTS is applied when no row
\* with that id exists.
UserCondInsert(table, id) == [applied |-> id \notin table, store |-> table \cup {id}]

\* username_exists: SELECT id FROM users WHERE username = ?; an exception
\* answers False.
UsernameExists(name, readFails) ==
    (~readFails) /\ \E u \in users : usernames[u] = name

\* An empty store and three registrations to come.
InitRegister ==
    /\ movies = FixtureMovies
    /\ users = {}
    /\ reservations = [k \in Keys |-> NoRow]
    /\ clock = 0
    /\ call = [p \in Procs |-> Idle]
    /\ started = 0
    /\ won = [k \in Keys |-> 0]
    /\ released = {}
    /\ faults = MaxFaults
    /\ limit = MaxSoloOps
    /\ usernames = StoredNames({})
    /\ history = NoHistory
    /\ harness = NoHarness

\* ReservationConsole.register_user: the username is refused when
\* username_exists answers True, otherwise insert_user is called.
RegisterCall(p, name) ==
    /\ call[p].pc \in {"idle", "done"}
    /\ started < limit
    /\ started' = started + 1
    /\ \E readFails \in BOOLEAN :
         /\ MayFail(readFails)
         /\ faults' = Spend(readFails)
         /\ LET c == [Idle EXCEPT !.op = "register", !.pc = "r_check", !.name = name]
            IN call' = [call EXCEPT ![p] =
                IF UsernameExists(name, readFails)
                THEN Done(c, "None", "none")
                ELSE [c EXCEPT !.pc = "r_insert"]]
    /\ UNCHANGED <<movies, users, reservations, clock, won, released, limit, usernames>>
    /\ history' = Logged(p)
    /\ harness' = harness

\* insert_user called directly, as the stress tests do.
InsertUserCall(p, name) ==
    /\ call[p].pc \in {"idle", "done"}
    /\ started < limit
    /\ started' = started + 1
    /\ call' = [call EXCEPT ![p] =
          [Idle EXCEPT !.op = "insert_user", !.pc = "r_insert", !.name = name]]
    /\ UNCHANGED <<movies, users, reservations, clock, won, released, faults, limit,
                   usernames>>
    /\ history' = Logged(p)
    /\ harness' = harness

\* insert_user: a fresh uuid4 id and one conditional insert; the id is
\* returned when the insert was applied, None otherwise and on an exception.
InsertUser(p) ==
    /\ call[p].pc = "r_insert"
    /\ \E id \in UserIds \ users, out \in Outcomes :
         /\ MayFail(out # "ok")
         /\ faults' = Spend(out # "ok")
         /\ LET c == [call[p] EXCEPT !.user = id]
                r == UserCondInsert(users, id)
                written == out \in {"ok", "unknown_applied"} /\ r.applied
            IN /\ users' = IF written THEN r.store ELSE users
               /\ usernames' = IF written THEN [usernames EXCEPT ![id] = c.name]
                                ELSE usernames
               /\ call' = [call EXCEPT ![p] =
                     IF out = "ok"
                     THEN Done(c, IF r.applied THEN "True" ELSE "None", "applied")
                     ELSE Done(c, "None", Seen(out))]
    /\ UNCHANGED <<movies, reservations, clock, started, won, released, limit>>
    /\ history' = Logged(p)
    /\ harness' = harness

NextRegister ==
    \/ \E p \in Procs, name \in Usernames : RegisterCall(p, name)
    \/ \E p \in Procs, name \in Usernames : InsertUserCall(p, name)
    \/ \E p \in Procs : InsertUser(p)

SpecRegister == InitRegister /\ [][NextRegister]_vars

\* ------------------------------------------------------------ one Transfer alone
\* Seat X is booked by u1 and a single update_reservation call is made, with
\* nothing else running; any of its store calls may end in an exception.
InitAlone ==
    /\ movies = FixtureMovies
    /\ users = FixtureUsers
    /\ reservations = Held("StressMovie1", "u1", "X")
    /\ clock = 0
    /\ call = [p \in Procs |-> Idle]
    /\ started = 0
    /\ won = [k \in Keys |-> 0]
    /\ released = {}
    /\ faults = -1
    /\ limit = 1
    /\ usernames = StoredNames(users)
    /\ history = NoHistory
    /\ harness = NoHarness

\* A lone call never has its release answered not-applied, so the rollback
\* is never entered.
NextAlone ==
    \/ \E m \in FixtureMovies, u \in FixtureUsers, cur \in Seats, new \in Seats :
           TransferCall("p1", m, cur, new, u)
    \/ TransferUserCheck("p1")
    \/ TransferRead("p1")
    \/ TransferClaim("p1")
    \/ TransferRelease("p1")

SpecAlone == InitAlone /\ [][NextAlone]_vars

\* ------------------------------------------------------------ two calls of one user
\* Seat X is booked by u1, Y and Z are free; either no store call fails or
\* any may. Two calls are made, one per thread.
InitPair ==
    /\ movies = FixtureMovies
    /\ users = FixtureUsers
    /\ reservations = Held("StressMovie1", "u1", "X")
    /\ clock = 0
    /\ call = [p \in Procs |-> Idle]
    /\ started = 0
    /\ won = [k \in Keys |-> 0]
    /\ released = {}
    /\ faults \in {0, -1}
    /\ limit = 2
    /\ usernames = StoredNames(users)
    /\ history = NoHistory
    /\ harness = NoHarness

\* Thread 1 moves u1 from X to Y; thread 2 moves u1 from X to Z, or books Y
\* for u1.
NextPair ==
    \/ \E m \in FixtureMovies :
           call["p1"].pc = "idle" /\ TransferCall("p1", m, "X", "Y", "u1")
    \/ \E m \in FixtureMovies :
           call["p2"].pc = "idle" /\ TransferCall("p2", m, "X", "Z", "u1")
    \/ \E m \in FixtureMovies :
           call["p2"].pc = "idle" /\ BookCall("p2", m, "u1", "Y")
    \/ \E p \in Procs : BookUserCheck(p)
    \/ \E p \in Procs : BookInsert(p)
    \/ \E p \in Procs : TransferUserCheck(p)
    \/ \E p \in Procs : TransferRead(p)
    \/ \E p \in Procs : TransferClaim(p)
    \/ \E p \in Procs : TransferRelease(p)
    \/ \E p \in Procs : TransferCompensate(p)

SpecPair == InitPair /\ [][NextPair]_vars

\* ------------------------------------------------------------ run_all_stress_tests
\* The store with its fixtures and free seats; run_all_stress_tests is about
\* to make its first health check. It makes four health checks and runs
\* three stress tests, each stress test stood for by one of its
\* make_reservation calls.
InitSuite ==
    /\ movies = FixtureMovies
    /\ users = FixtureUsers
    /\ reservations = [k \in Keys |-> NoRow]
    /\ clock = 0
    /\ call = [p \in Procs |-> Idle]
    /\ started = 0
    /\ won = [k \in Keys |-> 0]
    /\ released = {}
    /\ faults = MaxFaults
    /\ limit = 2 * Len(SuitePlan) + 1
    /\ usernames = StoredNames(users)
    /\ history = NoHistory
    /\ harness = [NoHarness EXCEPT !.mode = "suite", !.phase = "check"]

\* self.check_cluster_health()
SuiteCheck ==
    /\ harness.mode = "suite"
    /\ harness.phase = "check"
    /\ HealthCall("p1")

\* self.stress_test_...(...): a make_reservation call of the stress test.
SuiteRun ==
    /\ harness.mode = "suite"
    /\ harness.phase = "run"
    /\ \E m \in FixtureMovies : BookCall("p1", m, "u1", SeatOrder[harness.step])

NextSuite ==
    \/ SuiteCheck
    \/ HealthPeers("p1")
    \/ SuiteRun
    \/ BookUserCheck("p1")
    \/ BookInsert("p1")

SpecSuite == InitSuite /\ [][NextSuite]_vars

\* ------------------------------------------------------------ properties
\* Thread p takes this step.
Moves(p) == call'[p] # call[p]
\* The key a Book call inserts at; the keys of a Transfer call.
SeatKey(c) == <<c.movie, c.seat>>
NewSeatKey(c) == <<c.movie, c.newSeat>>
Returned(p, op) == call[p].pc = "done" /\ call[p].op = op
\* The keys at which table t holds a row of user u.
Owned(t, u) == {k \in Keys : t[k].user = u}

\* C1: among the Book calls that target one (movie, seat), under every
\* interleaving and every pattern of unknown outcomes, at most one returns
\* True, as long as no conditional delete has released that seat.
C1_AtMostOneBookWins ==
    \A k \in Keys : k \notin released => won[k] <= 1

\* Two Book calls contended for one seat: one returned True, the other False
\* on a definite not-applied answer, and no other seat is reserved.
C1_Witness ==
    \E k \in Keys, p \in Procs, q \in Procs :
        /\ p # q
        /\ won[k] = 1
        /\ \A k2 \in Keys \ {k} : ~Present(reservations[k2])
        /\ Returned(p, "book") /\ call[p].ret = "True"
        /\ Returned(q, "book") /\ call[q].ret = "False"
        /\ call[q].last = "not_applied"

\* C2: a reservation key changes only from absent to a row of user u in a
\* conditional-insert step of a call issued for u, or from a row of user u to
\* absent in a conditional-delete step (release or compensation) of a call
\* issued for u; a row is never overwritten.
C2_OwnerChangesOnlyByOwnCas ==
    [][\A k \in Keys :
         reservations'[k] # reservations[k] =>
           \E p \in Procs :
             /\ Moves(p)
             /\ \/ /\ ~Present(reservations[k])
                   /\ reservations'[k].user = call[p].user
                   /\ \/ call[p].pc = "b_insert" /\ k = SeatKey(call[p])
                      \/ call[p].pc = "t_claim" /\ k = NewSeatKey(call[p])
                \/ /\ reservations[k].user = call[p].user
                   /\ ~Present(reservations'[k])
                   /\ \/ call[p].pc = "t_release" /\ k = SeatKey(call[p])
                      \/ call[p].pc = "t_comp" /\ k = NewSeatKey(call[p])]_vars

\* A seat was released by a conditional delete and the other user holds a
\* seat: both kinds of change have happened.
C2_Witness ==
    /\ released # {}
    /\ \E k \in Keys : reservations[k].user = "u2"
    /\ \E k \in Keys : reservations[k].user = "u1"

\* C3: a Book whose conditional insert is answered applied returns True at
\* once and leaves the key owned by its user with creation = modification =
\* its now; one answered not-applied returns False at once, with no retry,
\* and leaves the table as it was.
C3_BookDefiniteAnswer ==
    [][\A p \in Procs :
         (Moves(p) /\ call[p].pc = "b_insert") =>
           LET k == SeatKey(call[p]) IN
           /\ call'[p].last = "applied" =>
                /\ call'[p].pc = "done" /\ call'[p].ret = "True"
                /\ ~Present(reservations[k])
                /\ reservations'[k].user = call[p].user
                /\ reservations'[k].creation = call[p].now
                /\ reservations'[k].modification = reservations'[k].creation
           /\ call'[p].last = "not_applied" =>
                /\ call'[p].pc = "done" /\ call'[p].ret = "False"
                /\ Present(reservations[k])
                /\ reservations' = reservations]_vars

\* One Book was answered applied and returned True after the clock had moved
\* on, another was answered not-applied and returned False.
C3_Witness ==
    \E p \in Procs, q \in Procs :
        /\ Returned(p, "book") /\ call[p].last = "applied" /\ call[p].ret = "True"
        /\ Returned(q, "book") /\ call[q].last = "not_applied" /\ call[q].ret = "False"
        /\ clock = 1
        /\ \E k \in Keys : Present(reservations[k]) /\ reservations[k].creation = 0

\* C4: a Book for a movie that does not exist returns False from the movie
\* check, before any user check; one for a user that does not exist returns
\* False from the user check; neither gets to the conditional insert, and the
\* table is unchanged.
C4_BookFailsFast ==
    [][\A p \in Procs :
         (Moves(p) /\ call'[p].op = "book") =>
           /\ call'[p].pc \in {"b_user", "b_insert"} => call'[p].movie \in movies
           /\ call'[p].pc = "b_insert" => call'[p].user \in users
           /\ call'[p].pc = "b_user" => call'[p].nUserRead = 0 /\ call'[p].nIns = 0
           /\ (call'[p].pc = "done" /\ call'[p].via \in {"b_movie", "b_user"}) =>
                /\ call'[p].ret = "False"
                /\ call'[p].via = "b_movie" => call'[p].nUserRead = 0
                /\ call'[p].via = "b_user" => call[p].nIns = 0
                /\ reservations' = reservations]_vars

\* One Book returned False from the movie check and one from the user check,
\* both on a read that answered (no exception).
C4_Witness ==
    \E p \in Procs, q \in Procs :
        /\ Returned(p, "book") /\ call[p].via = "b_movie" /\ call[p].last = "none"
        /\ call[p].ret = "False" /\ call[p].nUserRead = 0
        /\ Returned(q, "book") /\ call[q].via = "b_user" /\ call[q].last = "none"
        /\ call[q].ret = "False"

\* C5: one Book call issues at most MaxRetries (5) conditional inserts, all
\* with the same key, user and timestamps; it returns at the first definite
\* answer and issues the insert again after an unknown outcome that was not
\* the last attempt.
C5_BookRetriesSameInsert ==
    [][\A p \in Procs :
         (Moves(p) /\ call[p].pc = "b_insert") =>
           /\ call[p].nIns < MaxRetries
           /\ call'[p].sameArgs
           /\ call'[p].last \in {"applied", "not_applied"} => call'[p].pc = "done"
           /\ (call'[p].last = "unknown" /\ call[p].nIns + 1 < MaxRetries) =>
                /\ call'[p].pc = "b_insert"
                /\ call'[p].nIns = call[p].nIns + 1
                /\ call'[p].now = call[p].now
                /\ SeatKey(call'[p]) = SeatKey(call[p])
                /\ call'[p].user = call[p].user]_vars

\* A Book that has issued four inserts, all unknown, is about to issue its
\* fifth with the same arguments, after the clock has moved on.
C5_Witness ==
    \E p \in Procs :
        /\ call[p].pc = "b_insert" /\ call[p].nIns = MaxRetries - 1
        /\ call[p].sameArgs /\ call[p].now = 0 /\ clock = 1

\* C6: a Book returns True only from a conditional insert answered applied;
\* when its last attempt ends unknown it has issued MaxRetries inserts and
\* returns a non-success result.
C6_BookNeverGuesses ==
    [][\A p \in Procs :
         (Moves(p) /\ call[p].pc = "b_insert" /\ call'[p].pc = "done") =>
           /\ call'[p].ret = "True" => call'[p].last = "applied"
           /\ call'[p].last = "unknown" =>
                /\ call[p].nIns + 1 = MaxRetries
                /\ call'[p].ret \in {"False", "None"}]_vars

\* A Book whose five attempts all ended unknown returned None, although one
\* of them had written its row.
C6_Witness ==
    \E p \in Procs :
        /\ Returned(p, "book") /\ call[p].via = "b_insert"
        /\ call[p].last = "unknown" /\ call[p].ret = "None" /\ call[p].committed

\* C7: a store error other than the unknown CAS outcome, in an existence
\* read, the reservation read or a conditional write of Book or Transfer,
\* reaches the caller as an error ("Raise"), not as a returned value.
C7_ErrorsPropagate ==
    \A p \in Procs :
        (call[p].pc = "done" /\ call[p].last = "error") => call[p].ret = "Raise"

\* C8 as stated: retrying Book's conditional insert is idempotent. Once an
\* attempt of the call has written its row, every later attempt of the call
\* finds that row, changes nothing and is never answered applied, so the call
\* does not return True; while the key is absent, a retry that gets a definite
\* answer is applied and writes the call's row.
C8_RetryIdempotent ==
    [][\A p \in Procs :
         (Moves(p) /\ call[p].pc = "b_insert") =>
           LET k == SeatKey(call[p])
               mine == [user |-> call[p].user, creation |-> call[p].now,
                        modification |-> call[p].now]
           IN /\ call[p].committed =>
                   /\ reservations[k] = mine
                   /\ reservations' = reservations
                   /\ call'[p].last # "applied"
                   /\ call'[p].ret # "True"
              /\ (call[p].nIns > 0 /\ ~Present(reservations[k])
                    /\ call'[p].last \in {"applied", "not_applied"}) =>
                   /\ call'[p].last = "applied"
                   /\ reservations'[k] = mine]_vars

\* C8 amended: the same, as long as no conditional delete (the release or
\* compensation of a Transfer) has been applied to the call's key: then every
\* attempt after the one that wrote finds the call's row, changes nothing and
\* is never answered applied; while the key is absent, a retry that gets a
\* definite answer is applied and writes the call's row.
C8_RetryIdempotentUnlessReleased ==
    [][\A p \in Procs :
         (Moves(p) /\ call[p].pc = "b_insert") =>
           LET k == SeatKey(call[p])
               mine == [user |-> call[p].user, creation |-> call[p].now,
                        modification |-> call[p].now]
           IN /\ (call[p].committed /\ k \notin released) =>
                   /\ reservations[k] = mine
                   /\ reservations' = reservations
                   /\ call'[p].last # "applied"
                   /\ call'[p].ret # "True"
              /\ (call[p].nIns > 0 /\ ~Present(reservations[k])
                    /\ call'[p].last \in {"applied", "not_applied"}) =>
                   /\ call'[p].last = "applied"
                   /\ reservations'[k] = mine]_vars

\* A Book wrote its row in an attempt that ended unknown, retried, was
\* answered not-applied and returned False; no seat was ever released and its
\* row is the only one besides the seat booked at the start.
C8_Witness ==
    \E p \in Procs :
        /\ Returned(p, "book") /\ call[p].committed
        /\ call[p].last = "not_applied" /\ call[p].ret = "False"
        /\ released = {}
        /\ Cardinality({k \in Keys : Present(reservations[k])}) = 2

\* C9: a Transfer for a movie that does not exist returns False from the
\* movie check, one for a user that does not exist returns False from the
\* user check; neither reads the reservation nor issues a conditional insert
\* or delete, and the table is unchanged.
C9_TransferFailsFast ==
    [][\A p \in Procs :
         (Moves(p) /\ call'[p].op = "transfer") =>
           /\ call'[p].pc \in {"t_user", "t_read", "t_claim", "t_release", "t_comp"} =>
                call'[p].movie \in movies
           /\ call'[p].pc \in {"t_read", "t_claim", "t_release", "t_comp"} =>
                call'[p].user \in users
           /\ call'[p].pc \in {"t_user", "t_read"} =>
                call'[p].nResRead = 0 /\ call'[p].nIns = 0 /\ call'[p].nDel = 0
           /\ (call'[p].pc = "done" /\ call'[p].via \in {"t_movie", "t_user"}) =>
                /\ call'[p].ret = "False"
                /\ call'[p].nResRead = 0
                /\ call'[p].via = "t_user" => call[p].nIns = 0 /\ call[p].nDel = 0
                /\ reservations' = reservations]_vars

\* A Transfer returned False from the user check, on a read that answered,
\* without reading the reservation, while a seat is booked.
C9_Witness ==
    \E p \in Procs :
        /\ Returned(p, "transfer") /\ call[p].via = "t_user"
        /\ call[p].last = "none" /\ call[p].ret = "False" /\ call[p].nResRead = 0
        /\ \E k \in Keys : Present(reservations[k])

\* C10: a Transfer that reads no row at (movie, currentSeat), or a row of
\* another user, returns False from the read; it has issued no conditional
\* insert or delete and the table is unchanged.
C10_TransferNeedsOwnRow ==
    [][\A p \in Procs :
         (Moves(p) /\ call[p].pc = "t_read"
            /\ reservations[SeatKey(call[p])].user # call[p].user) =>
           /\ call'[p].pc = "done" /\ call'[p].ret = "False"
           /\ call'[p].via = "t_read"
           /\ call[p].nIns = 0 /\ call[p].nDel = 0 /\ ~call'[p].committed
           /\ reservations' = reservations]_vars

\* One Transfer returned False on another user's row and one on a missing
\* row; the booked seat is still as it was.
C10_Witness ==
    \E p \in Procs, q \in Procs :
        /\ Returned(p, "transfer") /\ call[p].last = "foreign" /\ call[p].ret = "False"
        /\ Returned(q, "transfer") /\ call[q].last = "missing" /\ call[q].ret = "False"
        /\ reservations = Held("StressMovie1", "u1", "X")

\* C11: a Transfer with newSeat = currentSeat whose read answers returns from
\* the read without having issued a conditional insert or delete and leaves
\* the table, the row's modification timestamp included, unchanged; it
\* returns True when the row at the seat belongs to its user and False when
\* the seat is absent or belongs to another user.
C11_SameSeatNoOp ==
    [][\A p \in Procs :
         (Moves(p) /\ call[p].pc = "t_read" /\ call[p].newSeat = call[p].seat
            /\ call'[p].last # "error") =>
           LET row == reservations[SeatKey(call[p])] IN
           /\ call'[p].pc = "done" /\ call'[p].via = "t_read"
           /\ call[p].nIns = 0 /\ call[p].nDel = 0 /\ ~call'[p].committed
           /\ reservations' = reservations
           /\ call'[p].ret = IF row.user = call[p].user THEN "True" ELSE "False"]_vars

\* A same-seat Transfer on the user's own row returned True after the clock
\* had moved on, and the row still carries its first timestamps.
C11_Witness ==
    \E p \in Procs, k \in Keys :
        /\ Returned(p, "transfer") /\ call[p].last = "same" /\ call[p].ret = "True"
        /\ clock = 1
        /\ Present(reservations[k])
        /\ reservations[k].creation = 0 /\ reservations[k].modification = 0
        /\ \A k2 \in Keys \ {k} : ~Present(reservations[k2])

\* C12: when a Transfer returns True from its release step, the row it
\* inserted at (movie, newSeat) has the owner and the creation timestamp of
\* the row at (movie, currentSeat) that this step deletes.
C12_CreationPreserved ==
    [][\A p \in Procs :
         (Moves(p) /\ call[p].pc = "t_release" /\ call'[p].ret = "True") =>
           LET old == reservations[SeatKey(call[p])]
               new == call[p].sent[2]
           IN /\ ~Present(reservations'[SeatKey(call[p])])
              /\ call[p].sent[1] = NewSeatKey(call[p])
              /\ new.user = old.user
              /\ new.creation = old.creation]_vars

\* C13: claim before release. A Transfer gets to its release step only from
\* a claim answered applied on an absent newSeat, and no other step of it
\* touches the row at (movie, currentSeat); a claim step that finds newSeat
\* occupied, before this call has written anything, changes nothing, is
\* followed by no delete (it retries the claim or returns False), and the
\* call has issued no delete so far.
C13_ClaimBeforeRelease ==
    [][\A p \in Procs :
         (Moves(p) /\ call[p].op = "transfer") =>
           LET old == SeatKey(call[p])
               new == NewSeatKey(call[p])
           IN /\ call[p].pc # "t_release" => reservations'[old] = reservations[old]
              /\ call'[p].pc = "t_release" =>
                   /\ call[p].pc = "t_claim" /\ call'[p].last = "applied"
                   /\ ~Present(reservations[new])
              /\ (call[p].pc = "t_claim" /\ Present(reservations[new])
                     /\ ~call[p].committed) =>
                   /\ call[p].nDel = 0
                   /\ reservations' = reservations
                   /\ call'[p].pc \in {"done", "t_claim"}
                   /\ call'[p].pc = "done" => call'[p].ret = "False"
                   /\ call'[p].last \in {"applied", "not_applied"} =>
                        call'[p].last = "not_applied" /\ call'[p].pc = "done"]_vars

\* A Transfer of u1 from X found newSeat booked by u2, was answered
\* not-applied and returned False; X still carries its first row.
C13_Witness ==
    \E p \in Procs, k \in Keys :
        /\ Returned(p, "transfer") /\ call[p].via = "t_claim"
        /\ call[p].last = "not_applied" /\ call[p].ret = "False"
        /\ ~call[p].committed
        /\ reservations[k].user = "u2"
        /\ reservations[<<"StressMovie1", "X">>] = BookRow("u1", 0)
        /\ released = {}

\* C14: when a claim step of a Transfer is answered not-applied and the
\* Transfer returns False on it, no attempt of this call has written a row:
\* the row at (movie, newSeat) is not one this call inserted, and the call
\* has issued no delete.
C14_NotAppliedWroteNothing ==
    [][\A p \in Procs :
         (Moves(p) /\ call[p].pc = "t_claim" /\ call'[p].pc = "done"
            /\ call'[p].last = "not_applied") =>
           /\ call'[p].ret = "False"
           /\ ~call'[p].committed
           /\ call[p].nDel = 0
           /\ reservations[NewSeatKey(call[p])]
                # ClaimRow(call[p].user, call[p].orig, call[p].now)]_vars

\* C15: with no other call in between, a claim insert answered applied adds
\* the row (user, original creation, now) at (movie, newSeat) and goes on to
\* the release; a release delete answered applied removes the user's row at
\* (movie, currentSeat) and returns True, leaving newSeat owned by the user
\* and the user with as many reservations as before the claim.
C15_MoveSucceeds ==
    [][\A p \in Procs :
         (Moves(p) /\ call[p].op = "transfer" /\ call'[p].last = "applied") =>
           LET c == call[p]
               mine == ClaimRow(c.user, c.orig, c.now)
           IN /\ c.pc = "t_claim" =>
                   /\ call'[p].pc = "t_release"
                   /\ reservations[SeatKey(c)].user = c.user
                   /\ reservations' = [reservations EXCEPT ![NewSeatKey(c)] = mine]
                   /\ Cardinality(Owned(reservations', c.user))
                        = Cardinality(Owned(reservations, c.user)) + 1
              /\ c.pc = "t_release" =>
                   /\ call'[p].pc = "done" /\ call'[p].ret = "True"
                   /\ reservations[NewSeatKey(c)] = mine
                   /\ reservations' = [reservations EXCEPT ![SeatKey(c)] = NoRow]
                   /\ Cardinality(Owned(reservations', c.user))
                        = Cardinality(Owned(reservations, c.user)) - 1]_vars

\* A Transfer of u1 from X to Y taken at time 1 returned True from an applied
\* release: Y holds the row created at 0 and modified at 1, nothing else is
\* reserved.
C15_Witness ==
    /\ Returned("p1", "transfer") /\ call["p1"].via = "t_release"
    /\ call["p1"].last = "applied" /\ call["p1"].ret = "True"
    /\ reservations = [k \in Keys |->
          IF k = <<"StressMovie1", "Y">> THEN ClaimRow("u1", 0, 1) ELSE NoRow]
    /\ released = {<<"StressMovie1", "X">>}

\* C16: a release delete answered not-applied changes nothing and is followed
\* by the compensation step; that step issues one conditional delete at
\* (movie, newSeat) for the call's user and touches no other key; when it is
\* answered the Transfer returns False; the answer is applied exactly when
\* newSeat held the user's row, which is then gone.
C16_CompensateAfterFailedRelease ==
    [][\A p \in Procs :
         (Moves(p) /\ call[p].op = "transfer") =>
           LET c == call[p]
               new == NewSeatKey(c)
           IN /\ (c.pc = "t_release" /\ call'[p].last = "not_applied") =>
                   /\ call'[p].pc = "t_comp"
                   /\ reservations[SeatKey(c)].user # c.user
                   /\ reservations' = reservations
              /\ call'[p].pc = "t_comp" =>
                   c.pc = "t_release" /\ call'[p].last = "not_applied"
              /\ c.pc = "t_comp" =>
                   /\ call'[p].nDel = c.nDel + 1 \/ call'[p].pc = "done"
                   /\ \A k \in Keys \ {new} : reservations'[k] = reservations[k]
                   /\ reservations'[new] \in {reservations[new], NoRow}
                   /\ call'[p].last \in {"applied", "not_applied"} =>
                        call'[p].pc = "done" /\ call'[p].ret = "False"
                   /\ call'[p].last = "applied" =>
                        /\ reservations[new].user = c.user
                        /\ ~Present(reservations'[new])
                   /\ call'[p].last = "not_applied" =>
                        /\ reservations[new].user # c.user
                        /\ reservations' = reservations]_vars

\* Two Transfers of u1 left X for Y and for Z; the one whose release was not
\* applied deleted its new row again and returned False: only one of the two
\* new seats is reserved.
C16_Witness ==
    \E p \in Procs :
        /\ Returned(p, "transfer") /\ call[p].via = "t_comp"
        /\ call[p].last = "applied" /\ call[p].ret = "False"
        /\ Cardinality(Owned(reservations, "u1")) = 1
        /\ ~Present(reservations[<<"StressMovie1", "X">>])
        /\ Cardinality(released) = 2

\* C17: in a Transfer a claim insert or a release delete that ends unknown,
\* and is not the last attempt, is issued again as the same statement: the
\* call stays at the step whose outcome was unknown, with the same keys,
\* user and timestamps, and no step is attempted more than MaxRetries times.
C17_StepsRetriedIndividually ==
    [][\A p \in Procs :
         (Moves(p) /\ call[p].pc \in {"t_claim", "t_release"}
            /\ call'[p].last = "unknown" /\ call'[p].pc # "done") =>
           /\ call'[p].pc = call[p].pc
           /\ SeatKey(call'[p]) = SeatKey(call[p])
           /\ NewSeatKey(call'[p]) = NewSeatKey(call[p])
           /\ call'[p].user = call[p].user
           /\ call'[p].orig = call[p].orig /\ call'[p].now = call[p].now
           /\ call[p].nIns < MaxRetries /\ call[p].nDel < MaxRetries]_vars

\* The returned calls h are a round trip: a Book of a seat, a Transfer of the
\* same user from that seat to another one and a Transfer back, each
\* returning True.
RoundTrip(h) ==
    /\ Len(h) = 3
    /\ \A i \in 1..3 : h[i].ret = "True" /\ h[i].user = h[1].user /\ h[i].movie = h[1].movie
    /\ h[1].op = "book" /\ h[2].op = "transfer" /\ h[3].op = "transfer"
    /\ h[2].seat = h[1].seat /\ h[2].newSeat # h[1].seat
    /\ h[3].seat = h[2].newSeat /\ h[3].newSeat = h[1].seat

\* C18: after Book(m, u, X), Transfer(m, X, Y, u) and Transfer(m, Y, X, u) on
\* an empty table, each returning True and nothing else called, the table
\* holds exactly one row: at (m, X), owned by u, created at the Book's now and
\* modified at the last Transfer's now, which is not before the creation;
\* (m, Y) is absent.
C18_RoundTrip ==
    LET h == history.log IN
    (call["p1"].pc = "done" /\ RoundTrip(h)) =>
        /\ reservations = [k \in Keys |->
              IF k = <<h[1].movie, h[1].seat>>
              THEN [user |-> h[1].user, creation |-> h[1].now, modification |-> h[3].now]
              ELSE NoRow]
        /\ h[3].now >= h[1].now

\* The round trip X -> Y -> X of u1 has returned, booked at time 0 and moved
\* back at time 1.
C18_Witness ==
    /\ call["p1"].pc = "done" /\ RoundTrip(history.log)
    /\ history.log[1].seat = "X" /\ history.log[1].now = 0
    /\ history.log[3].now = 1
    /\ reservations[<<"StressMovie1", "X">>] = ClaimRow("u1", 0, 1)

\* C19: when the process dies after a Transfer's claim insert was answered
\* applied and before its release delete is issued, and nothing else runs,
\* the user holds both seats: the row at (movie, currentSeat) is still the
\* user's and the row at (movie, newSeat) is the claim row with the same
\* creation; each key still has at most one owner.
C19_CrashLeavesDualHold ==
    LET h == history.log
        n == Len(h)
    IN (n > 0 /\ call["p1"].pc = "done" /\ h[n].ret = "Crash") =>
         LET old == <<h[n].movie, h[n].seat>>
             new == <<h[n].movie, h[n].newSeat>>
         IN /\ old # new
            /\ reservations[old].user = h[n].user
            /\ reservations[new] = ClaimRow(h[n].user, reservations[old].creation, h[n].now)
            /\ {old, new} \subseteq Owned(reservations, h[n].user)
            /\ \A u \in UserIds, v \in UserIds :
                 u # v => Owned(reservations, u) \cap Owned(reservations, v) = {}

\* The process died in a Transfer of u1 from X to Y taken at time 1, the only
\* call made: u1 holds X and Y, Y with X's creation.
C19_Witness ==
    /\ call["p1"].pc = "done" /\ call["p1"].ret = "Crash"
    /\ Len(history.log) = 1
    /\ reservations = [k \in Keys |->
          IF k = <<"StressMovie1", "X">> THEN BookRow("u1", 0)
          ELSE IF k = <<"StressMovie1", "Y">> THEN ClaimRow("u1", 0, 1)
          ELSE NoRow]

\* C20: when the compensation delete of a Transfer ends in an exception
\* (unknown outcome or any other error), the call returns False from that
\* step: it issues no further conditional insert or delete.
C20_CompensationNotRetried ==
    [][\A p \in Procs :
         (Moves(p) /\ call[p].pc = "t_comp" /\ call'[p].last \in {"unknown", "error"}) =>
           /\ call'[p].pc = "done"
           /\ call'[p].ret = "False"
           /\ call'[p].via = "t_comp"]_vars

\* C21: when both topology reads answer, check_cluster_health returns True
\* if and only if the number of peers it saw plus one is at least 2, whatever
\* the reservations table holds; when either read raises it returns False.
\* It changes no table.
C21_HealthIffTwoNodes ==
    [][\A p \in Procs :
         (Moves(p) /\ call'[p].op = "health") =>
           /\ reservations' = reservations /\ movies' = movies /\ users' = users
           /\ call'[p].pc = "done" =>
                /\ call'[p].ret \in {"True", "False"}
                /\ call'[p].last = "error" => call'[p].ret = "False"
                /\ call'[p].last # "error" =>
                     /\ call'[p].via = "h_peers"
                     /\ call'[p].ret = "True" <=> call'[p].peers + 1 >= 2]_vars

\* A health call that saw one peer returned True and one seat is reserved.
C21_Witness ==
    /\ Returned("p2", "health") /\ call["p2"].last = "none"
    /\ call["p2"].peers = 1 /\ call["p2"].ret = "True"
    /\ \E k \in Keys : Present(reservations[k])

\* Every submitted request of stress test 1 has returned.
AllReturned == started = limit /\ \A p \in Procs : call[p].pc \in {"idle", "done"}

C27_PoolHasWorker ==
    /\ PoolSize(limit) >= 1
    /\ PoolThreads(PoolSize(limit)) # {}
    /\ started <= limit

\* C25: in stress test 3 the seats for which user 1's Book returned True and
\* those for which user 2's did are disjoint, and together they are at most
\* num_seats; each of them is held by the user who won it.
C25_WonSetsDisjoint ==
    /\ harness.wonBy["p1"] \cap harness.wonBy["p2"] = {}
    /\ Cardinality(harness.wonBy["p1"]) + Cardinality(harness.wonBy["p2"]) <= limit \div 2
    /\ \A p \in Procs : \A s \in harness.wonBy[p] :
         reservations[<<"StressMovie1", s>>].user = RaceUser(p)

\* With three seats, all six calls have returned: each user won at least one
\* seat and every seat was won.
C25_Witness ==
    /\ limit = 6 /\ started = 6 /\ \A p \in Procs : call[p].pc = "done"
    /\ harness.wonBy["p1"] # {} /\ harness.wonBy["p2"] # {}
    /\ harness.wonBy["p1"] \cup harness.wonBy["p2"] = Seats

\* Thread p of stress test 2 has read the table and decided, and the call it
\* decided on has not returned yet.
InSection(p) == harness.next[p] # NoTask \/ call[p].pc \notin {"idle", "done"}
\* The reservations in the store, as the final read-back counts them.
StoredRows == {k \in Keys : Present(reservations[k])}
\* The four counters of a record added up.
CountSum(c) == c.reservations + c.updates + c.errors + c.skipped

\* C28: in stress test 2 with the coordination lock, a step in which a worker
\* reads the table, decides, skips, or moves its Book or Transfer is taken
\* only while no other worker is between its own read and the return of the
\* call it issued; at most one worker is ever in that section.
C28_OneWorkerInSection ==
    [][harness.mode = "locked" =>
         /\ Cardinality({p \in Procs : InSection(p)'}) <= 1
         /\ \A p \in Procs :
              (Moves(p) \/ harness'.next[p] # harness.next[p]
                        \/ harness'.iter[p] # harness.iter[p]) =>
                /\ p \in harness.holders
                /\ \A q \in Procs \ {p} : ~InSection(q) /\ ~InSection(q)']_vars

\* Worker p1 holds the lock in the middle of a Transfer while worker p2, with
\* one iteration done and one to go, is outside.
C28_Witness ==
    /\ harness.mode = "locked"
    /\ harness.holders = {"p1"} /\ call["p1"].pc = "t_release"
    /\ harness.iter["p2"] = 1 /\ harness.ops = 2 /\ ~InSection("p2")

\* C30: in both variants of stress test 2 a worker's counters change only
\* when it finishes an iteration, and then exactly one of the four goes up by
\* one; the shared totals change only by the one worker inside the results
\* lock adding its finished counters; once every worker has added its
\* counters the four totals sum to clients x operations_per_client.
C30_OneCounterPerIteration ==
    [][/\ \A p \in Procs :
            /\ harness'.iter[p] \in {harness.iter[p], harness.iter[p] + 1}
            /\ harness'.iter[p] <= harness.ops
            /\ harness'.iter[p] = harness.iter[p] => harness'.count[p] = harness.count[p]
            /\ harness'.iter[p] # harness.iter[p] =>
                 \E f \in {"reservations", "updates", "errors", "skipped"} :
                    harness'.count[p] = [harness.count[p] EXCEPT ![f] = @ + 1]
            /\ CountSum(harness'.count[p]) = harness'.iter[p]
       /\ harness'.total # harness.total =>
            \E p \in Procs :
               /\ harness.rholders = {p}
               /\ harness.iter[p] = harness.ops
               /\ p \notin harness.merged
               /\ harness'.total = Sum(harness.total, harness.count[p])
       /\ harness'.merged = Procs =>
            CountSum(harness'.total) = Cardinality(Procs) * harness'.ops]_vars

\* The optimistic variant has finished: both workers have added their
\* counters, and bookings, an update and a skip were counted.
C30_Witness ==
    /\ harness.mode = "free" /\ harness.merged = Procs /\ harness.ops = 2
    /\ harness.total.reservations > 0 /\ harness.total.updates > 0
    /\ harness.total.skipped > 0

C29_WorkersStartFromFreshStore ==
    started > 0 =>
       /\ harness.mode = "seats"
       /\ FixtureMovies \subseteq movies /\ FixtureUsers \subseteq users
       /\ \A k \in Keys : Present(reservations[k]) => reservations[k].user \in FixtureUsers

\* C26: no two rows of table users carry the same username.
C26_UsernamesUnique ==
    \A a \in users : \A b \in users : a # b => usernames[a] # usernames[b]

\* C39: a Book that returns a non-success result (False or None) has left no
\* reservation of its own in the store: none of its conditional inserts was
\* committed.
C39_FailedBookWroteNothing ==
    [][\A p \in Procs :
         (Moves(p) /\ call'[p].pc = "done" /\ call'[p].op = "book"
            /\ call'[p].ret # "True") => ~call'[p].committed]_vars

\* C35: every reservation row has modification >= creation.
C35_ModificationNotBeforeCreation ==
    \A k \in Keys :
       Present(reservations[k]) => reservations[k].modification >= reservations[k].creation

\* C36: when a Transfer that ran alone has returned False, every seat is held
\* by the user who held it before the call: u1 holds X and nothing else.
C36_FailedTransferChangedNothing ==
    (Returned("p1", "transfer") /\ call["p1"].ret = "False") =>
       \A k \in Keys :
          reservations[k].user = Held("StressMovie1", "u1", "X")[k].user

\* C37: two concurrent Transfers of u1 from X, one to Y and one to Z, with no
\* store call failing: at most one of them returns True, and when both have
\* returned u1 holds exactly one seat and the table has one row, as before.
C37_OneOfTwoTransfersWins ==
    (faults = 0 /\ call["p1"].op = "transfer" /\ call["p2"].op = "transfer") =>
       /\ ~(call["p1"].ret = "True" /\ call["p2"].ret = "True")
       /\ (call["p1"].pc = "done" /\ call["p2"].pc = "done") =>
            /\ Cardinality(Owned(reservations, "u1")) = 1
            /\ Cardinality(StoredRows) = 1

\* Both Transfers claimed their seat; the first released X and returned True,
\* the second found X gone, rolled its claim back and returned False.
C37_Witness ==
    /\ faults = 0
    /\ Returned("p1", "transfer") /\ call["p1"].ret = "True"
    /\ Returned("p2", "transfer") /\ call["p2"].ret = "False"
    /\ call["p2"].via = "t_comp"
    /\ Owned(reservations, "u1") = {<<"StressMovie1", "Y">>}

\* The position of a call inside its function, in program order.
PcRank(pc) ==
    CASE pc \in {"b_movie", "t_movie"} -> 1
      [] pc \in {"b_user", "t_user"} -> 2
      [] pc = "t_read" -> 3
      [] pc \in {"b_insert", "t_claim"} -> 4
      [] pc = "t_release" -> 5
      [] pc = "t_comp" -> 6
      [] OTHER -> 0
\* Attempts (passes) come first, then the position inside the pass.
Progress(c) == 10 * c.attempt + PcRank(c.pc)

\* C33: a running call has used at most 5 attempts; a Book has issued at most
\* one insert per attempt, a Transfer at most one claim insert and two deletes
\* (release, rollback) per pass; and every step of a call either returns or
\* moves it forward in (pass, position), so no call runs forever whatever the
\* store answers.
C33_CallsTerminate ==
    [][\A p \in Procs :
         /\ call'[p].attempt <= MaxRetries - 1
         /\ call'[p].nIns <= call'[p].attempt + 1
         /\ call'[p].nDel <= 2 * (call'[p].attempt + 1)
         /\ call'[p].op = "book" => call'[p].nDel = 0
         /\ (Moves(p) /\ call[p].pc \notin {"idle", "done"}) =>
               \/ call'[p].pc = "done"
               \/ Progress(call'[p]) > Progress(call[p])]_vars

\* A Transfer in its fifth pass, after four claims without an answer, about
\* to roll back its fifth claim.
C33_Witness ==
    \E p \in Procs :
       /\ call[p].op = "transfer" /\ call[p].pc = "t_comp"
       /\ call[p].attempt = MaxRetries - 1 /\ call[p].nIns = MaxRetries

\* C38: a rollback delete of a Transfer that removes a row removes the row
\* this call inserted in its claim step.
C38_RollbackRemovesOwnClaim ==
    [][\A p \in Procs :
         (Moves(p) /\ call[p].pc = "t_comp"
            /\ reservations'[CompKey(call[p])] # reservations[CompKey(call[p])]) =>
           reservations[CompKey(call[p])] = call[p].sent[2]]_vars

\* C32: in stress test 2 with the coordination lock, a worker that finishes
\* an iteration has left the lock, whatever the call or the state read
\* answered; no worker does more than operations_per_client iterations; and
\* every run reaches the end, where each worker has done exactly
\* operations_per_client iterations, the lock is free and all counters are
\* merged.
C32_LockedRunTerminates ==
    /\ [][harness.mode = "locked" =>
            \A p \in Procs :
               /\ harness'.iter[p] <= harness.ops
               /\ harness'.iter[p] # harness.iter[p] => p \notin harness'.holders]_vars
    /\ (harness.mode = "locked") ~>
          (/\ harness.merged = Procs
           /\ harness.holders = {}
           /\ \A p \in Procs : harness.iter[p] = harness.ops
                                /\ CountSum(harness.count[p]) = harness.ops)

\* A run with the lock has ended although a state read and so the call that
\* followed it failed: an operation was skipped after a call, all iterations
\* are done and the lock is free.
C32_Witness ==
    /\ harness.mode = "locked" /\ harness.merged = Procs /\ harness.holders = {}
    /\ faults < MaxFaults
    /\ \E p \in Procs : call[p].pc = "done" /\ call[p].ret # "True"
                          /\ harness.count[p].skipped > 0
    /\ \A p \in Procs : harness.iter[p] = harness.ops

\* The first n entries of a sequence.
Prefix(seq, n) == [i \in 1..n |-> seq[i]]

\* C34: run_all_stress_tests runs nothing when its first health check fails;
\* otherwise it runs stress test 1 (50), stress test 2 (5, 15) and stress
\* test 3 (30, 2) in this order, each after one more health check whose
\* answer does not matter; a make_reservation step never reads or changes
\* what the health checks answered.
C34_SuiteOrder ==
    [][/\ harness'.ran = Prefix(SuitePlan, Len(harness'.ran))
       /\ harness'.phase = "stopped" =>
            harness'.ran = <<>> /\ harness'.checks = <<FALSE>> /\ won' = won
       /\ harness'.checks # <<>> /\ harness'.phase # "stopped" => harness'.checks[1]
       /\ harness'.phase = "run" => Len(harness'.checks) = Len(harness'.ran) + 2
       /\ harness'.phase = "end" => Len(harness'.checks) = Len(SuitePlan) + 1
       /\ (harness.phase = "check" /\ harness.step > 0
             /\ harness'.checks # harness.checks) =>
            harness'.phase = "run" /\ harness'.step = harness.step
       /\ (Moves("p1") /\ call'["p1"].op = "book") =>
            /\ harness'.checks = harness.checks
            /\ harness.phase = "run"
            /\ call'["p1"].last = "applied" => call'["p1"].ret = "True"]_vars

\* All three stress tests have run and booked their seat although every
\* health check after the first answered False.
C34_Witness ==
    /\ harness.phase = "end"
    /\ harness.ran = SuitePlan
    /\ harness.checks = <<TRUE, FALSE, FALSE, FALSE>>
    /\ \A i \in 1..Len(SuitePlan) : won[<<"StressMovie1", SeatOrder[i]>>] = 1

\* C31: a stress test that has ended has read the reservations table after
\* its workers finished and has printed a pass or a fail verdict.
C31_EndsWithReadBackAndVerdict ==
    harness.finished =>
       /\ harness.merged = Procs
       /\ harness.readBack
       /\ harness.verdict \in {"pass", "fail"}
====
